---- MODULE Spec2Model ----
(***************************************************************************)
(* The BBR "full pipe" estimator of s2n-quic-core                          *)
(* (recovery/bbr/full_pipe.rs): the Estimator record, its two mutating     *)
(* entry points on_round_start and on_packet_lost, and the three checks    *)
(* on_round_start combines with a short-circuiting ||.                     *)
(*                                                                         *)
(* A Rust method `fn f(&mut self, args) -> bool` is modelled by an         *)
(* operator f(s, args) that yields [self |-> the Estimator after the call, *)
(* ret |-> the returned boolean].  A `&mut self` method without a result   *)
(* yields the Estimator after the call.                                    *)
(***************************************************************************)
EXTENDS Integers, Sequences, FiniteSets, TLC

(***************************************************************************)
(* Bounds of the model.                                                    *)
(***************************************************************************)
\* Bandwidth values are 0..MaxBw.  The comparison of line 101 is invariant
\* under scaling both sides, so the unit is arbitrary.
MaxBw == 5
\* on_packet_lost(true) calls explored between two on_round_start calls.
MaxLossBursts == 3
\* on_packet_lost(true) calls counted in one round where they are not bounded
\* by MaxLossBursts: one more than a u8 holds.
MaxLossCounted == 256

(***************************************************************************)
(* Program constants.                                                      *)
(***************************************************************************)
\* Counter<u8, Saturating>: the largest value of the three counters.
U8_MAX == 255
\* const DELIVERY_RATE_INCREASE: Ratio<u64> = Ratio::new_raw(4, 3); // 1.25
DELIVERY_RATE_INCREASE == [numer |-> 4, denom |-> 3]
BANDWIDTH_PLATEAU_ROUND_COUNT == 3
STARTUP_FULL_LOSS_COUNT == 3
STARTUP_FULL_ECN_COUNT == 2

Bandwidths == 0..MaxBw

\* bandwidth::RateSample, reduced to what the estimator reads of it: the
\* is_app_limited flag, and the verdict of
\* BbrCongestionController::is_inflight_too_high on the sample's lost_bytes,
\* bytes_in_flight, ecn_ce_count and delivered_bytes.
RateSample == [is_app_limited : BOOLEAN, inflight_too_high : BOOLEAN]

(***************************************************************************)
(* The Estimator: one variable per field.                                  *)
(***************************************************************************)
VARIABLES
    filled_pipe,             \* bool
    full_bw,                 \* Bandwidth
    full_bw_count,           \* Counter<u8, Saturating>
    loss_bursts,             \* Counter<u8, Saturating>
    ecn_ce_rounds,           \* Counter<u8, Saturating>
    in_recovery_last_round,  \* bool
    \* Observers of the caller's sequence of calls (not program state).
    call,                    \* the most recent call, its arguments and outcome
    prev_in_recovery,        \* in_recovery of the most recent on_round_start
    lost_since_round,        \* on_packet_lost(true) calls since that call
    all_quiet,               \* every round so far: app-limited, no recovery, no ECN
    ecn_streak,              \* consecutive latest rounds with ecn_ce_count_too_high
    ecn_pattern,             \* progress through too-high, not, too-high, too-high
    stagnant_run,            \* progress through three stagnant rounds
    round_count,             \* on_round_start calls so far: 0, 1, 2 for two or more
    plateau_rounds,          \* judged no-growth rounds since the last growth round
    app_limited_between,     \* an app-limited round came between those rounds
    const_bw,                \* max_bw of the current run of equal reports
    const_run                \* length of that run, up to 4

fields == <<filled_pipe, full_bw, full_bw_count, loss_bursts, ecn_ce_rounds,
            in_recovery_last_round>>
observers == <<call, prev_in_recovery, lost_since_round, all_quiet, ecn_streak,
               ecn_pattern, stagnant_run, round_count, plateau_rounds,
               app_limited_between, const_bw, const_run>>
vars == <<filled_pipe, full_bw, full_bw_count, loss_bursts, ecn_ce_rounds,
          in_recovery_last_round, call, prev_in_recovery, lost_since_round,
          all_quiet, ecn_streak, ecn_pattern, stagnant_run, round_count,
          plateau_rounds, app_limited_between, const_bw, const_run>>

\* #[derive(Default)]: every field at its zero/false default.
Default ==
    [filled_pipe |-> FALSE, full_bw |-> 0, full_bw_count |-> 0,
     loss_bursts |-> 0, ecn_ce_rounds |-> 0, in_recovery_last_round |-> FALSE]

\* The Estimator the variables hold.
self ==
    [filled_pipe |-> filled_pipe, full_bw |-> full_bw,
     full_bw_count |-> full_bw_count, loss_bursts |-> loss_bursts,
     ecn_ce_rounds |-> ecn_ce_rounds,
     in_recovery_last_round |-> in_recovery_last_round]

(***************************************************************************)
(* Collaborators of the estimator.                                         *)
(***************************************************************************)
\* Counter<u8, Saturating> += 1
saturating_inc(c) == IF c < U8_MAX THEN c + 1 ELSE U8_MAX

\* max_bw >= full_bw * ratio, as an exact comparison of rationals.
bw_ge_scaled(max_bw, bw, ratio) == max_bw * ratio.denom >= bw * ratio.numer

\* BbrCongestionController::is_inflight_too_high(rate_sample, max_datagram_size)
is_inflight_too_high(rate_sample) == rate_sample.inflight_too_high

(***************************************************************************)
(* Estimator::bandwidth_plateaued                                          *)
(***************************************************************************)
\* bandwidth_plateaued with `>` where the code has `>=` on its last line.
bandwidth_plateaued_strict(s, rate_sample, max_bw) ==
    IF rate_sample.is_app_limited
    THEN [self |-> s, ret |-> FALSE]
    ELSE IF bw_ge_scaled(max_bw, s.full_bw, DELIVERY_RATE_INCREASE)
    THEN [self |-> [s EXCEPT !.full_bw = max_bw, !.full_bw_count = 0],
          ret |-> FALSE]
    ELSE LET count == saturating_inc(s.full_bw_count)
         IN  [self |-> [s EXCEPT !.full_bw_count = count],
              ret |-> count > BANDWIDTH_PLATEAU_ROUND_COUNT]

\* bandwidth_plateaued without the is_app_limited early return.
bandwidth_plateaued_any_sample(s, rate_sample, max_bw) ==
    IF bw_ge_scaled(max_bw, s.full_bw, DELIVERY_RATE_INCREASE)
    THEN [self |-> [s EXCEPT !.full_bw = max_bw, !.full_bw_count = 0],
          ret |-> FALSE]
    ELSE LET count == saturating_inc(s.full_bw_count)
         IN  [self |-> [s EXCEPT !.full_bw_count = count],
              ret |-> count >= BANDWIDTH_PLATEAU_ROUND_COUNT]

\* bandwidth_plateaued recording max_bw as the baseline in every round it
\* judges, a live value instead of a baseline.
bandwidth_plateaued_live_baseline(s, rate_sample, max_bw) ==
    IF rate_sample.is_app_limited
    THEN [self |-> s, ret |-> FALSE]
    ELSE IF bw_ge_scaled(max_bw, s.full_bw, DELIVERY_RATE_INCREASE)
    THEN [self |-> [s EXCEPT !.full_bw = max_bw, !.full_bw_count = 0],
          ret |-> FALSE]
    ELSE LET count == saturating_inc(s.full_bw_count)
         IN  [self |-> [s EXCEPT !.full_bw = max_bw, !.full_bw_count = count],
              ret |-> count >= BANDWIDTH_PLATEAU_ROUND_COUNT]

\* bandwidth_plateaued restarting the count on an app-limited sample, so
\* that only strictly consecutive judged rounds add up.
bandwidth_plateaued_consecutive(s, rate_sample, max_bw) ==
    IF rate_sample.is_app_limited
    THEN [self |-> [s EXCEPT !.full_bw_count = 0], ret |-> FALSE]
    ELSE IF bw_ge_scaled(max_bw, s.full_bw, DELIVERY_RATE_INCREASE)
    THEN [self |-> [s EXCEPT !.full_bw = max_bw, !.full_bw_count = 0],
          ret |-> FALSE]
    ELSE LET count == saturating_inc(s.full_bw_count)
         IN  [self |-> [s EXCEPT !.full_bw_count = count],
              ret |-> count >= BANDWIDTH_PLATEAU_ROUND_COUNT]

bandwidth_plateaued(s, rate_sample, max_bw) ==
    IF rate_sample.is_app_limited
    THEN [self |-> s, ret |-> FALSE]
    ELSE IF bw_ge_scaled(max_bw, s.full_bw, DELIVERY_RATE_INCREASE)
    THEN \* still growing: record the new baseline, restart the count
         [self |-> [s EXCEPT !.full_bw = max_bw, !.full_bw_count = 0],
          ret |-> FALSE]
    ELSE \* another round without much growth
         LET count == saturating_inc(s.full_bw_count)
         IN  [self |-> [s EXCEPT !.full_bw_count = count],
              ret |-> count >= BANDWIDTH_PLATEAU_ROUND_COUNT]

(***************************************************************************)
(* Estimator::excessive_inflight                                           *)
(***************************************************************************)
\* excessive_inflight without the `self.in_recovery_last_round` conjunct.
excessive_inflight_one_round(s, rate_sample, in_recovery) ==
    IF /\ in_recovery
       /\ is_inflight_too_high(rate_sample)
       /\ s.loss_bursts >= STARTUP_FULL_LOSS_COUNT
    THEN [self |-> s, ret |-> TRUE]
    ELSE [self |-> [s EXCEPT !.in_recovery_last_round = in_recovery,
                             !.loss_bursts = 0],
          ret |-> FALSE]

\* excessive_inflight without `self.loss_bursts = Counter::default()`.
excessive_inflight_no_reset(s, rate_sample, in_recovery) ==
    IF /\ in_recovery
       /\ s.in_recovery_last_round
       /\ is_inflight_too_high(rate_sample)
       /\ s.loss_bursts >= STARTUP_FULL_LOSS_COUNT
    THEN [self |-> s, ret |-> TRUE]
    ELSE [self |-> [s EXCEPT !.in_recovery_last_round = in_recovery],
          ret |-> FALSE]

\* excessive_inflight updating its two fields before the test, so that they
\* are written also when it returns true.
excessive_inflight_consuming(s, rate_sample, in_recovery) ==
    [self |-> [s EXCEPT !.in_recovery_last_round = in_recovery,
                        !.loss_bursts = 0],
     ret |-> /\ in_recovery
             /\ s.in_recovery_last_round
             /\ is_inflight_too_high(rate_sample)
             /\ s.loss_bursts >= STARTUP_FULL_LOSS_COUNT]

excessive_inflight(s, rate_sample, in_recovery) ==
    IF /\ in_recovery
       /\ s.in_recovery_last_round
       /\ is_inflight_too_high(rate_sample)
       /\ s.loss_bursts >= STARTUP_FULL_LOSS_COUNT
    THEN [self |-> s, ret |-> TRUE]
    ELSE [self |-> [s EXCEPT !.in_recovery_last_round = in_recovery,
                             !.loss_bursts = 0],
          ret |-> FALSE]

(***************************************************************************)
(* Estimator::excessive_explicit_congestion                                *)
(***************************************************************************)
\* excessive_explicit_congestion with `>` where the code has `>=`.
excessive_explicit_congestion_strict(s, ecn_ce_count_too_high) ==
    LET ce_rounds == IF ecn_ce_count_too_high
                  THEN saturating_inc(s.ecn_ce_rounds)
                  ELSE 0
    IN  [self |-> [s EXCEPT !.ecn_ce_rounds = ce_rounds],
         ret |-> ce_rounds > STARTUP_FULL_ECN_COUNT]

\* excessive_explicit_congestion without the else branch that resets the count.
excessive_explicit_congestion_no_reset(s, ecn_ce_count_too_high) ==
    LET ce_rounds == IF ecn_ce_count_too_high
                  THEN saturating_inc(s.ecn_ce_rounds)
                  ELSE s.ecn_ce_rounds
    IN  [self |-> [s EXCEPT !.ecn_ce_rounds = ce_rounds],
         ret |-> ce_rounds >= STARTUP_FULL_ECN_COUNT]

excessive_explicit_congestion(s, ecn_ce_count_too_high) ==
    LET ce_rounds == IF ecn_ce_count_too_high
                  THEN saturating_inc(s.ecn_ce_rounds)
                  ELSE 0
    IN  [self |-> [s EXCEPT !.ecn_ce_rounds = ce_rounds],
         ret |-> ce_rounds >= STARTUP_FULL_ECN_COUNT]

(***************************************************************************)
(* Estimator::on_round_start                                               *)
(***************************************************************************)
\* on_round_start without the `if self.filled_pipe { return; }` guard.
on_round_start_unguarded(s, rate_sample, max_bw, in_recovery, ecn_ce_count_too_high) ==
    LET p == bandwidth_plateaued(s, rate_sample, max_bw)
    IN  IF p.ret THEN [p.self EXCEPT !.filled_pipe = TRUE]
        ELSE
        LET i == excessive_inflight(p.self, rate_sample, in_recovery)
        IN  IF i.ret THEN [i.self EXCEPT !.filled_pipe = TRUE]
            ELSE
            LET e == excessive_explicit_congestion(i.self, ecn_ce_count_too_high)
            IN  [e.self EXCEPT !.filled_pipe = e.ret]

\* on_round_start evaluating all three checks and combining them with `|`.
on_round_start_eager(s, rate_sample, max_bw, in_recovery, ecn_ce_count_too_high) ==
    IF s.filled_pipe THEN s
    ELSE
    LET p == bandwidth_plateaued(s, rate_sample, max_bw)
        i == excessive_inflight(p.self, rate_sample, in_recovery)
        e == excessive_explicit_congestion(i.self, ecn_ce_count_too_high)
    IN  [e.self EXCEPT !.filled_pipe = p.ret \/ i.ret \/ e.ret]

on_round_start(s, rate_sample, max_bw, in_recovery, ecn_ce_count_too_high) ==
    IF s.filled_pipe THEN s
    ELSE
    \* self.filled_pipe = plateaued || excessive_inflight || excessive_ecn
    LET p == bandwidth_plateaued(s, rate_sample, max_bw)
    IN  IF p.ret THEN [p.self EXCEPT !.filled_pipe = TRUE]
        ELSE
        LET i == excessive_inflight(p.self, rate_sample, in_recovery)
        IN  IF i.ret THEN [i.self EXCEPT !.filled_pipe = TRUE]
            ELSE
            LET e == excessive_explicit_congestion(i.self, ecn_ce_count_too_high)
            IN  [e.self EXCEPT !.filled_pipe = e.ret]

(***************************************************************************)
(* Estimator::on_packet_lost                                               *)
(***************************************************************************)
\* on_packet_lost without the `if self.filled_pipe { return; }` guard.
on_packet_lost_unguarded(s, new_loss_burst) ==
    IF new_loss_burst
    THEN [s EXCEPT !.loss_bursts = saturating_inc(s.loss_bursts)]
    ELSE s

\* on_packet_lost counting every lost packet, not only the start of a burst.
on_packet_lost_every_packet(s, new_loss_burst) ==
    IF s.filled_pipe THEN s
    ELSE [s EXCEPT !.loss_bursts = saturating_inc(s.loss_bursts)]

\* on_packet_lost with a wrapping u8 in place of the saturating counter.
on_packet_lost_wrapping(s, new_loss_burst) ==
    IF s.filled_pipe THEN s
    ELSE IF new_loss_burst
    THEN [s EXCEPT !.loss_bursts = (s.loss_bursts + 1) % (U8_MAX + 1)]
    ELSE s

on_packet_lost(s, new_loss_burst) ==
    IF s.filled_pipe THEN s
    ELSE IF new_loss_burst
    THEN [s EXCEPT !.loss_bursts = saturating_inc(s.loss_bursts)]
    ELSE s

\* Estimator::filled_pipe(&self)
filled_pipe_query(s) == s.filled_pipe

(***************************************************************************)
(* Observers: what a test harness around the Estimator would record.       *)
(***************************************************************************)
Min(a, b) == IF a <= b THEN a ELSE b

\* The check whose `true` ended the || chain of an on_round_start call on s:
\* "returned" when the call returned at its guard, "none" when all three
\* checks were evaluated and returned false.
deciding_check(s, rate_sample, max_bw, in_recovery, ecn_ce_count_too_high) ==
    IF s.filled_pipe THEN "returned"
    ELSE
    LET p == bandwidth_plateaued(s, rate_sample, max_bw)
        i == excessive_inflight(p.self, rate_sample, in_recovery)
        e == excessive_explicit_congestion(i.self, ecn_ce_count_too_high)
    IN  IF p.ret THEN "plateau"
        ELSE IF i.ret THEN "inflight"
        ELSE IF e.ret THEN "ecn"
        ELSE "none"

NoCall ==
    [op |-> "new", is_app_limited |-> FALSE, inflight_too_high |-> FALSE,
     max_bw |-> 0, in_recovery |-> FALSE, ecn_ce_count_too_high |-> FALSE,
     new_loss_burst |-> FALSE, fired |-> "none"]

\* A round the plateau-exactness scenario counts: entered with the pipe not
\* filled, not app-limited, max_bw < 1.25 * full_bw, and neither the
\* excessive-inflight nor the ECN check firing.
StagnantRound(rate_sample, max_bw, fired) ==
    /\ ~filled_pipe
    /\ ~rate_sample.is_app_limited
    /\ 4 * max_bw < 5 * full_bw
    /\ fired \notin {"inflight", "ecn"}

\* stagnant_run after a round: a run starts from full_bw_count = 0 only.
NextStagnantRun(rate_sample, max_bw, fired) ==
    IF ~StagnantRound(rate_sample, max_bw, fired) THEN 0
    ELSE IF stagnant_run = 0 THEN (IF full_bw_count = 0 THEN 1 ELSE 0)
    ELSE Min(stagnant_run + 1, 3)

\* ecn_pattern after a round: 1 after a too-high round entered with
\* ecn_ce_rounds = 0, 2 after a following not-too-high round, 3 after a
\* following too-high round, 4 after one more too-high round; 0 otherwise.
\* Only rounds entered with the pipe not filled in which neither the plateau
\* nor the excessive-inflight check fires continue the pattern.
NextEcnPattern(ecn_ce_count_too_high, fired) ==
    IF filled_pipe \/ fired \in {"plateau", "inflight"} THEN 0
    ELSE IF ecn_ce_count_too_high
    THEN CASE ecn_pattern = 2 -> 3
           [] ecn_pattern = 3 -> 4
           [] OTHER -> IF ecn_ce_rounds = 0 THEN 1 ELSE 0
    ELSE IF ecn_pattern = 1 THEN 2 ELSE 0

(***************************************************************************)
(* The state machine: a caller that owns one Estimator and calls its two   *)
(* entry points in any order with any arguments.                           *)
(***************************************************************************)
Install(s) ==
    /\ filled_pipe' = s.filled_pipe
    /\ full_bw' = s.full_bw
    /\ full_bw_count' = s.full_bw_count
    /\ loss_bursts' = s.loss_bursts
    /\ ecn_ce_rounds' = s.ecn_ce_rounds
    /\ in_recovery_last_round' = s.in_recovery_last_round

Init ==
    /\ filled_pipe = Default.filled_pipe
    /\ full_bw = Default.full_bw
    /\ full_bw_count = Default.full_bw_count
    /\ loss_bursts = Default.loss_bursts
    /\ ecn_ce_rounds = Default.ecn_ce_rounds
    /\ in_recovery_last_round = Default.in_recovery_last_round
    /\ call = NoCall
    /\ prev_in_recovery = FALSE
    /\ lost_since_round = 0
    /\ all_quiet = TRUE
    /\ ecn_streak = 0
    /\ ecn_pattern = 0
    /\ stagnant_run = 0
    /\ round_count = 0
    /\ plateau_rounds = 0
    /\ app_limited_between = FALSE
    /\ const_bw = 0
    /\ const_run = 0

OnRoundStart ==
    \E rate_sample \in RateSample, max_bw \in Bandwidths,
       in_recovery \in BOOLEAN, ecn_ce_count_too_high \in BOOLEAN :
        LET fired == deciding_check(self, rate_sample, max_bw, in_recovery,
                                    ecn_ce_count_too_high)
        IN  /\ Install(on_round_start(self, rate_sample, max_bw, in_recovery,
                                      ecn_ce_count_too_high))
            /\ call' = [op |-> "on_round_start",
                        is_app_limited |-> rate_sample.is_app_limited,
                        inflight_too_high |-> rate_sample.inflight_too_high,
                        max_bw |-> max_bw,
                        in_recovery |-> in_recovery,
                        ecn_ce_count_too_high |-> ecn_ce_count_too_high,
                        new_loss_burst |-> FALSE,
                        fired |-> fired]
            /\ prev_in_recovery' = in_recovery
            /\ lost_since_round' = 0
            /\ all_quiet' = (/\ all_quiet
                             /\ rate_sample.is_app_limited
                             /\ ~in_recovery
                             /\ ~ecn_ce_count_too_high)
            /\ ecn_streak' = IF ecn_ce_count_too_high
                             THEN Min(ecn_streak + 1, 2) ELSE 0
            /\ ecn_pattern' = NextEcnPattern(ecn_ce_count_too_high, fired)
            /\ stagnant_run' = NextStagnantRun(rate_sample, max_bw, fired)
            /\ round_count' = Min(round_count + 1, 2)
            /\ UNCHANGED <<plateau_rounds, app_limited_between, const_bw,
                           const_run>>

OnPacketLost ==
    \E new_loss_burst \in BOOLEAN :
        /\ new_loss_burst => lost_since_round < MaxLossBursts
        /\ Install(on_packet_lost(self, new_loss_burst))
        /\ call' = [NoCall EXCEPT !.op = "on_packet_lost",
                                  !.new_loss_burst = new_loss_burst]
        /\ lost_since_round' = IF new_loss_burst THEN lost_since_round + 1
                               ELSE lost_since_round
        /\ UNCHANGED <<prev_in_recovery, all_quiet, ecn_streak, ecn_pattern,
                       stagnant_run, round_count, plateau_rounds,
                       app_limited_between, const_bw, const_run>>

Next == OnRoundStart \/ OnPacketLost

Spec == Init /\ [][Next]_vars

(***************************************************************************)
(* The same caller, observed for the claims about counters.  Each          *)
(* specification advances the observers its properties read and leaves the *)
(* others as they are.                                                     *)
(***************************************************************************)
\* An on_round_start call and the observers every specification keeps.
RoundCall(rate_sample, max_bw, in_recovery, ecn_ce_count_too_high) ==
    /\ Install(on_round_start(self, rate_sample, max_bw, in_recovery,
                              ecn_ce_count_too_high))
    /\ call' = [op |-> "on_round_start",
                is_app_limited |-> rate_sample.is_app_limited,
                inflight_too_high |-> rate_sample.inflight_too_high,
                max_bw |-> max_bw,
                in_recovery |-> in_recovery,
                ecn_ce_count_too_high |-> ecn_ce_count_too_high,
                new_loss_burst |-> FALSE,
                fired |-> deciding_check(self, rate_sample, max_bw,
                                         in_recovery, ecn_ce_count_too_high)]
    /\ prev_in_recovery' = in_recovery
    /\ lost_since_round' = 0
    /\ round_count' = Min(round_count + 1, 2)

\* SpecSaturation: any number of on_packet_lost calls between rounds; the
\* rounds are app-limited with max_bw = 0 and no ECN signal, so that only the
\* excessive-inflight check, the reader of loss_bursts, can fire.
OnPacketLostUnbounded ==
    \E new_loss_burst \in BOOLEAN :
        /\ Install(on_packet_lost(self, new_loss_burst))
        /\ call' = [NoCall EXCEPT !.op = "on_packet_lost",
                                  !.new_loss_burst = new_loss_burst]
        /\ lost_since_round' = IF new_loss_burst
                               THEN Min(lost_since_round + 1, MaxLossCounted)
                               ELSE lost_since_round
        /\ UNCHANGED <<prev_in_recovery, all_quiet, ecn_streak, ecn_pattern,
                       stagnant_run, round_count, plateau_rounds,
                       app_limited_between, const_bw, const_run>>

OnRoundStartAppLimited ==
    \E inflight_too_high \in BOOLEAN, in_recovery \in BOOLEAN :
        /\ RoundCall([is_app_limited |-> TRUE,
                      inflight_too_high |-> inflight_too_high],
                     0, in_recovery, FALSE)
        /\ UNCHANGED <<all_quiet, ecn_streak, ecn_pattern, stagnant_run,
                       plateau_rounds, app_limited_between, const_bw,
                       const_run>>

NextSaturation == OnRoundStartAppLimited \/ OnPacketLostUnbounded

SpecSaturation == Init /\ [][NextSaturation]_vars

\* SpecPlateau: the caller of Spec, observed for the plateau count.
NextPlateauRounds(rate_sample, max_bw) ==
    IF filled_pipe \/ rate_sample.is_app_limited THEN plateau_rounds
    ELSE IF 3 * max_bw >= 4 * full_bw THEN 0
    ELSE Min(plateau_rounds + 1, 3)

NextAppLimitedBetween(rate_sample, max_bw) ==
    IF filled_pipe THEN app_limited_between
    ELSE IF rate_sample.is_app_limited
    THEN app_limited_between \/ plateau_rounds \in {1, 2}
    ELSE IF 3 * max_bw >= 4 * full_bw THEN FALSE
    ELSE app_limited_between

\* const_run after a round: rounds entered with the pipe not filled, not
\* app-limited, reporting the same max_bw > 0 as the round before.
NextConstRun(rate_sample, max_bw) ==
    IF filled_pipe \/ rate_sample.is_app_limited \/ max_bw = 0 THEN 0
    ELSE IF const_run > 0 /\ max_bw = const_bw THEN Min(const_run + 1, 4)
    ELSE 1

OnRoundStartJudged ==
    \E rate_sample \in RateSample, max_bw \in Bandwidths,
       in_recovery \in BOOLEAN, ecn_ce_count_too_high \in BOOLEAN :
        /\ RoundCall(rate_sample, max_bw, in_recovery, ecn_ce_count_too_high)
        /\ plateau_rounds' = NextPlateauRounds(rate_sample, max_bw)
        /\ app_limited_between' = NextAppLimitedBetween(rate_sample, max_bw)
        /\ const_run' = NextConstRun(rate_sample, max_bw)
        /\ const_bw' = IF NextConstRun(rate_sample, max_bw) = 0 THEN 0
                       ELSE max_bw
        /\ UNCHANGED <<all_quiet, ecn_streak, ecn_pattern, stagnant_run>>

NextPlateau == OnRoundStartJudged \/ OnPacketLost

SpecPlateau == Init /\ [][NextPlateau]_vars

TypeOK ==
    /\ filled_pipe \in BOOLEAN
    /\ full_bw \in Bandwidths
    /\ full_bw_count \in 0..U8_MAX
    /\ loss_bursts \in 0..U8_MAX
    /\ ecn_ce_rounds \in 0..U8_MAX
    /\ in_recovery_last_round \in BOOLEAN
    /\ filled_pipe_query(self) = filled_pipe

(***************************************************************************)
(* Properties.                                                             *)
(***************************************************************************)
RoundStep == call'.op = "on_round_start"
LostStep == call'.op = "on_packet_lost"

\* C1: monotonicity of the sticky flag: no step takes filled_pipe from true
\* to false, whatever the call and its inputs.
C1_Monotonic == [][filled_pipe => filled_pipe']_vars

\* An on_round_start call made with the pipe already filled, with a sample
\* in which no check would fire (not app-limited, max_bw above the baseline).
C1_Witness ==
    /\ filled_pipe
    /\ call.op = "on_round_start"
    /\ call.fired = "returned"
    /\ ~call.is_app_limited
    /\ call.max_bw > full_bw
    /\ ~call.ecn_ce_count_too_high

\* C2: growth threshold: an on_round_start call entered with filled_pipe false
\* and a sample that is not app-limited, with max_bw >= 1.25 * full_bw, sets
\* full_bw to max_bw and full_bw_count to 0, and the plateau check returns
\* false.
C2_GrowthAt125 ==
    [][(/\ RoundStep
        /\ ~filled_pipe
        /\ ~call'.is_app_limited
        /\ 4 * call'.max_bw >= 5 * full_bw)
       => (/\ full_bw' = call'.max_bw
           /\ full_bw_count' = 0
           /\ call'.fired # "plateau")]_vars

\* C3: plateau exactness: from full_bw_count = 0, three consecutive rounds,
\* not app-limited, each with max_bw < 1.25 * full_bw, and no other check
\* firing: filled_pipe is false after the first and the second and true after
\* the third.
C3_PlateauExactness ==
    /\ stagnant_run \in {1, 2} => ~filled_pipe
    /\ stagnant_run = 3 => filled_pipe

C3_Witness ==
    /\ stagnant_run = 3
    /\ filled_pipe
    /\ call.fired = "plateau"

\* C4: inflight-loss gating: in an on_round_start call entered with
\* filled_pipe false in which neither the plateau nor the ECN check fires,
\* filled_pipe becomes true exactly when in_recovery holds in this call and
\* held in the preceding on_round_start call, the sample is classified
\* inflight-too-high, and at least 3 on_packet_lost(true) calls were made since
\* the preceding on_round_start call.
C4_InflightGating ==
    [][(/\ RoundStep
        /\ ~filled_pipe
        /\ call'.fired \notin {"plateau", "ecn"})
       => (filled_pipe' <=> (/\ call'.in_recovery
                             /\ prev_in_recovery
                             /\ call'.inflight_too_high
                             /\ lost_since_round >= 3))]_vars

C4_Witness ==
    /\ filled_pipe
    /\ call.op = "on_round_start"
    /\ call.fired = "inflight"
    /\ loss_bursts = 3

\* C5: ECN contiguity, positive half: after two consecutive on_round_start
\* calls that both pass ecn_ce_count_too_high = true, filled_pipe is true.
C5_EcnTwoRounds == ecn_streak >= 2 => filled_pipe

C5_Witness ==
    /\ ecn_streak = 2
    /\ call.fired = "ecn"
    /\ filled_pipe

\* C6: ECN contiguity, reset half: an on_round_start call with
\* ecn_ce_count_too_high = false that leaves filled_pipe false leaves
\* ecn_ce_rounds = 0; and, the plateau and inflight checks not firing, the
\* rounds too-high, not-too-high, too-high (the first entered with
\* ecn_ce_rounds = 0) leave filled_pipe false, and one more too-high round
\* sets it.
C6_EcnReset ==
    /\ [][(RoundStep /\ ~call'.ecn_ce_count_too_high /\ ~filled_pipe')
          => ecn_ce_rounds' = 0]_vars
    /\ [](ecn_pattern \in {1, 2, 3} => ~filled_pipe)
    /\ [](ecn_pattern = 4 => filled_pipe)

C6_Witness ==
    /\ ecn_pattern = 4
    /\ filled_pipe
    /\ call.fired = "ecn"

\* C7: app-limited immunity: as long as every on_round_start call since
\* construction was app-limited with in_recovery = false and
\* ecn_ce_count_too_high = false, full_bw_count is 0 and filled_pipe is false.
C7_AppLimitedImmunity == all_quiet => (full_bw_count = 0 /\ ~filled_pipe)

\* Two or more such rounds, the last reporting a max_bw above 0 with loss
\* bursts reported before it and after it.
C7_Witness ==
    /\ all_quiet
    /\ round_count = 2
    /\ call.op = "on_packet_lost"
    /\ loss_bursts = 2

\* C8: short-circuit evidence isolation: an on_round_start call in which the
\* plateau check returns true leaves loss_bursts, in_recovery_last_round and
\* ecn_ce_rounds as they were.
C8_ShortCircuit ==
    [][(RoundStep /\ call'.fired = "plateau")
       => UNCHANGED <<loss_bursts, in_recovery_last_round, ecn_ce_rounds>>]_vars

\* The plateau fired in a call whose other arguments would have changed all
\* three: loss bursts pending, in_recovery differing from the stored flag,
\* ecn_ce_count_too_high true.
C8_Witness ==
    /\ call.op = "on_round_start"
    /\ call.fired = "plateau"
    /\ loss_bursts > 0
    /\ call.in_recovery # in_recovery_last_round
    /\ call.ecn_ce_count_too_high
    /\ ecn_ce_rounds = 0

\* C9: inert after filling: from a state with filled_pipe true no call changes
\* any of the six fields.
C9_Inert == [][filled_pipe => UNCHANGED fields]_vars

\* An on_packet_lost(true) call the filled Estimator did not count.
C9_Witness ==
    /\ filled_pipe
    /\ call.op = "on_packet_lost"
    /\ call.new_loss_burst
    /\ lost_since_round > loss_bursts

\* C10: on_packet_lost effect: with filled_pipe false, on_packet_lost(true)
\* adds one to loss_bursts (below the counter's maximum) and changes no other
\* field, on_packet_lost(false) changes no field; no on_packet_lost call
\* changes filled_pipe.
C10_PacketLostEffect ==
    [][LostStep
       => /\ filled_pipe' = filled_pipe
          /\ (~filled_pipe /\ call'.new_loss_burst /\ loss_bursts < U8_MAX)
             => /\ loss_bursts' = loss_bursts + 1
                /\ UNCHANGED <<filled_pipe, full_bw, full_bw_count,
                               ecn_ce_rounds, in_recovery_last_round>>
          /\ (~filled_pipe /\ ~call'.new_loss_burst) => UNCHANGED fields]_vars

C10_Witness ==
    /\ ~filled_pipe
    /\ call.op = "on_packet_lost"
    /\ call.new_loss_burst
    /\ loss_bursts = 3
    /\ full_bw > 0
    /\ ecn_ce_rounds = 1

\* C11: an app-limited on_round_start call leaves full_bw and full_bw_count
\* unchanged, whatever max_bw it reports.
C11_AppLimitedFrame ==
    [][(RoundStep /\ call'.is_app_limited)
       => UNCHANGED <<full_bw, full_bw_count>>]_vars

\* An app-limited round reporting a max_bw below the baseline, entered with
\* two stagnant rounds already counted: judged, it would have filled the pipe.
C11_Witness ==
    /\ call.op = "on_round_start"
    /\ call.is_app_limited
    /\ ~filled_pipe
    /\ full_bw_count = 2
    /\ call.max_bw < full_bw

\* C12: per-round reset of loss evidence: an on_round_start call entered with
\* filled_pipe false in which the excessive-inflight check is evaluated and
\* returns false leaves loss_bursts = 0 and in_recovery_last_round equal to
\* its in_recovery argument; and in every state with filled_pipe false after
\* at least one on_round_start call, loss_bursts is the number of
\* on_packet_lost(true) calls since the most recent on_round_start call
\* (counted up to 255).
C12_PerRoundReset ==
    /\ [][(RoundStep /\ ~filled_pipe /\ call'.fired \in {"ecn", "none"})
          => (/\ loss_bursts' = 0
              /\ in_recovery_last_round' = call'.in_recovery)]_vars
    /\ []((~filled_pipe /\ round_count >= 1)
          => loss_bursts = Min(lost_since_round, 255))

\* Two bursts reported after a second round that was in recovery with inflight
\* too high and did not fire.
C12_Witness ==
    /\ ~filled_pipe
    /\ round_count = 2
    /\ call.op = "on_packet_lost"
    /\ loss_bursts = 2
    /\ in_recovery_last_round
    /\ ecn_ce_rounds = 1

\* C13: an on_round_start call in which the excessive-inflight check fires
\* sets filled_pipe and leaves in_recovery_last_round, loss_bursts and
\* ecn_ce_rounds as they were.
C13_InflightFiresFrame ==
    [][(RoundStep /\ call'.fired = "inflight")
       => (/\ filled_pipe'
           /\ UNCHANGED <<in_recovery_last_round, loss_bursts,
                          ecn_ce_rounds>>)]_vars

\* It fired in a call that passed ecn_ce_count_too_high = true with one ECN
\* round already counted: the burst evidence is kept, the ECN count is not
\* advanced.
C13_Witness ==
    /\ call.op = "on_round_start"
    /\ call.fired = "inflight"
    /\ call.ecn_ce_count_too_high
    /\ ecn_ce_rounds = 1
    /\ loss_bursts = 3
    /\ in_recovery_last_round
    /\ filled_pipe

\* C14: full_bw never decreases; it changes only in an on_round_start call
\* that is not app-limited and whose max_bw is at least 4/3 of (so also at
\* least 1.25 times) the baseline, and then to that max_bw; a call reporting
\* a max_bw below the baseline leaves it.
C14_BaselineNonDecreasing ==
    [][/\ full_bw' >= full_bw
       /\ full_bw' # full_bw
          => (/\ RoundStep
              /\ ~call'.is_app_limited
              /\ 3 * call'.max_bw >= 4 * full_bw
              /\ 4 * call'.max_bw >= 5 * full_bw
              /\ full_bw' = call'.max_bw)
       /\ (RoundStep /\ call'.max_bw < full_bw) => full_bw' = full_bw]_vars

\* A round that is judged (not app-limited, pipe not filled) and reports a
\* max_bw below the baseline.
C14_Witness ==
    /\ call.op = "on_round_start"
    /\ ~call.is_app_limited
    /\ ~filled_pipe
    /\ call.max_bw < full_bw
    /\ full_bw_count = 1

\* C17: filled_pipe is false on a new Estimator and after its first
\* on_round_start call, whatever the inputs and the on_packet_lost calls
\* before it.
C17_NoSingleRoundFill == round_count <= 1 => ~filled_pipe

\* A first round with every input set towards filling.
C17_Witness ==
    /\ round_count = 1
    /\ call.op = "on_round_start"
    /\ ~call.is_app_limited
    /\ call.max_bw = 0
    /\ call.in_recovery
    /\ call.inflight_too_high
    /\ call.ecn_ce_count_too_high
    /\ ~filled_pipe

\* C18: full_bw_count <= 3 and ecn_ce_rounds <= 2 always; full_bw_count <= 2
\* and ecn_ce_rounds <= 1 while filled_pipe is false.
C18_CounterBounds ==
    /\ full_bw_count <= 3
    /\ ecn_ce_rounds <= 2
    /\ ~filled_pipe => (full_bw_count <= 2 /\ ecn_ce_rounds <= 1)

C18_Witness ==
    /\ filled_pipe
    /\ full_bw_count = 3
    /\ ecn_ce_rounds = 1

\* C15: saturating loss_bursts: the counter stays within 0..255 and, while
\* filled_pipe is false, equals the number of on_packet_lost(true) calls of
\* the round counted up to 255 (no wrap); at 255 a further on_packet_lost(true)
\* leaves it at 255; and an on_round_start call after 256 or more bursts that
\* meets the other three excessive-inflight conditions still fills the pipe.
C15_SaturatingLossBursts ==
    /\ [](loss_bursts \in 0..255)
    /\ [](~filled_pipe => loss_bursts = Min(lost_since_round, 255))
    /\ [][(LostStep /\ call'.new_loss_burst /\ loss_bursts = 255)
          => loss_bursts' = 255]_vars
    /\ [][(/\ RoundStep
           /\ ~filled_pipe
           /\ lost_since_round >= 256
           /\ call'.in_recovery
           /\ prev_in_recovery
           /\ call'.inflight_too_high)
          => filled_pipe']_vars

\* The 256th burst of a round, reported to an Estimator in recovery whose
\* pipe is not filled.
C15_Witness ==
    /\ ~filled_pipe
    /\ call.op = "on_packet_lost"
    /\ call.new_loss_burst
    /\ lost_since_round = 256
    /\ loss_bursts = 255
    /\ in_recovery_last_round

C19_StagnantExit ==
    /\ [](const_run >= 4 => filled_pipe)
    /\ [][(/\ RoundStep
           /\ ~filled_pipe
           /\ ~call'.is_app_limited
           /\ call'.max_bw = 0
           /\ full_bw = 0)
          => (/\ call'.fired # "plateau"
              /\ full_bw_count' = 0
              /\ full_bw' = 0)]_vars

\* The fourth call is needed: the plateau check fires in it.
C19_Witness ==
    /\ const_run = 4
    /\ call.fired = "plateau"
    /\ filled_pipe

====
